---- MODULE Spec2Model ----
(***************************************************************************)
(* The sensor-plane image pipeline of rawproc: Image<T, BayerRgb>::crop,   *)
(* ::whitebalance (u8 and u16) and ::debayer, as written in                *)
(* src/rawproc/src/image/bayerrgb.rs.                                      *)
(*                                                                         *)
(* Coordinates and indices are 0-based as in the source; TLA+ sequences    *)
(* are 1-based, so the sample at index i is data[i + 1].                   *)
(***************************************************************************)
EXTENDS Integers, Sequences, FiniteSets

VARIABLES
    ty,         \* the sample type T of the buffer: "u8" or "u16"
    width,      \* Image.width
    height,     \* Image.height
    data,       \* Image.data of the sensor-plane buffer
    crop,       \* metadata.crop: <<>> is None, <<c>> is Some(c)
    cfa,        \* metadata.cfa: the tile and its accumulated shift
    wb,         \* metadata.whitebalance, in units of 1/WbDen, by colour ordinal
    stage,      \* "bayer" | "debayering" | "rgb" | "panicked"
    rgb,        \* the output vector of debayer
    px, py,     \* the loop variables x and y of debayer
    err,        \* "none", or the panic that ended the last operation
    lastOp,     \* the operation called last: "none" | "crop" | "whitebalance" | "debayer"
    pre,        \* the buffer as it was when the last operation was called
    picks,      \* what pick_color chose for the pixel debayer handled last
    wbCalls     \* number of whitebalance() calls made on the sensor-plane buffer

vars == << ty, width, height, data, crop, cfa, wb, stage, rgb, px, py, err,
           lastOp, pre, picks, wbCalls >>

----------------------------------------------------------------------------
(* Bounds of the model *)

MaxWidth == 4          \* width of a decoded buffer
MaxHeight == 4         \* height of a decoded buffer
MaxArea == 9           \* width * height of a decoded buffer
MaxMargin == 1         \* each of crop.left, crop.right, crop.top, crop.bottom
MaxRandomByte == 7     \* random_u8() returns 0 .. MaxRandomByte
MaxWbCalls == 2        \* whitebalance() calls on one buffer

----------------------------------------------------------------------------
(* CfaColor and its conversions *)

Red == 0
Green == 1
Blue == 2
Emerald == 3

CfaColors == {Red, Green, Blue, Emerald}

\* CfaColor::rgb_index; Emerald is unreachable!() there, written -1 here and
\* never used: debayer panics on an Emerald pixel before it calls set.
rgb_index(c) == IF c \in {Red, Green, Blue} THEN c ELSE -1

\* LinRgb::COMPONENTS
COMPONENTS == 3

----------------------------------------------------------------------------
(* The CFA pattern resolver.  Its code is not under src/; it is modelled    *)
(* from the specification's section 4.1.                                    *)

TileW == 2
TileH == 2

\* colorAt(x, y): the tile entry at ((x + shiftX) mod tileWidth, (y + shiftY) mod tileHeight)
color_at(c, x, y) ==
    c.tile[((y + c.sy) % TileH) * TileW + ((x + c.sx) % TileW) + 1]

\* shiftedBy(dx, dy): the accumulated shift is increased by (dx, dy)
shift(c, dx, dy) == [c EXCEPT !.sx = @ + dx, !.sy = @ + dy]

----------------------------------------------------------------------------
(* Integer types *)

\* T::MAX of the sample type
TMax(t) == IF t = "u8" THEN 255 ELSE 65535

\* usize arithmetic wraps modulo 2^(pointer width) when overflow checks are off;
\* 16 bits is the narrowest target and the one whose products fit the model checker's integers.
UsizeModulus == 2 ^ 16

WrapSub(a, b) == (a - b) % UsizeModulus
\* a * b modulo 2^16, by halves of a so that no intermediate product exceeds
\* the model checker's 32-bit integers
WrapMul(a, b) ==
    LET half == 2 ^ 8
    IN  ((((a \div half) * b) % half) * half + (a % half) * b) % UsizeModulus

\* White-balance coefficients are multiples of 1/WbDen, which f32 holds exactly,
\* as it does every product with a sample below 2^16.
WbDen == 2

\* truncation toward zero of n / d
TruncDiv(n, d) == IF n >= 0 THEN n \div d ELSE -((-n) \div d)

\* A cast that wraps modulo 2^bits
FloatAsIntWrapping(n, d, t) == TruncDiv(n, d) % (TMax(t) + 1)

\* `(x: f32) as u8` and `as u16` of x = n / d: truncates toward zero and
\* saturates at the bounds of the type.
FloatAsInt(n, d, t) ==
    LET v == TruncDiv(n, d)
    IN  IF v < 0 THEN 0 ELSE IF v > TMax(t) THEN TMax(t) ELSE v

----------------------------------------------------------------------------
(* The buffer seen as a record *)

Buffer == [width |-> width, height |-> height, data |-> data,
           crop |-> crop, cfa |-> cfa]

\* color_at_i and the inline copies of it in whitebalance
color_at_i(c, w, i) == color_at(c, i % w, i \div w)

----------------------------------------------------------------------------
(* crop *)

\* &self.data[start..end]
Slice(d, start, end) == SubSeq(d, start + 1, end)

\* The row loop with the left margin left out of `start`
RECURSIVE CropRowsNoLeft(_, _, _, _, _, _)
CropRowsNoLeft(d, w, c, new_width, new_height, row) ==
    IF row >= new_height
    THEN << >>
    ELSE LET start == (row + c.top) * w
         IN  Slice(d, start, start + new_width)
                 \o CropRowsNoLeft(d, w, c, new_width, new_height, row + 1)

\* The row loop of crop: for row in 0..new_height, the span of new_width
\* samples that starts at (row + crop.top) * width + crop.left.
RECURSIVE CropRows(_, _, _, _, _, _)
CropRows(d, w, c, new_width, new_height, row) ==
    IF row >= new_height
    THEN << >>
    ELSE LET row_x == row + c.top
             start == row_x * w + c.left
             end   == start + new_width
         IN  Slice(d, start, end) \o CropRows(d, w, c, new_width, new_height, row + 1)

\* The shift with its arguments exchanged
CropCfaSwapped(f, c) == shift(f, c.top, c.left)

\* metadata.cfa.shift(crop.left, crop.top)
CropCfa(f, c) == shift(f, c.left, c.top)

\* crop() without `self.metadata.crop = None`
CroppedKeepsCrop(b, c, new_width, new_height) ==
    [width  |-> new_width,
     height |-> new_height,
     data   |-> CropRows(b.data, b.width, c, new_width, new_height, 0),
     crop   |-> << c >>,
     cfa    |-> CropCfa(b.cfa, c)]

\* The buffer crop() leaves when it runs to its end with the given new size.
Cropped(b, c, new_width, new_height) ==
    [width  |-> new_width,
     height |-> new_height,
     data   |-> CropRows(b.data, b.width, c, new_width, new_height, 0),
     crop   |-> << >>,
     cfa    |-> CropCfa(b.cfa, c)]

\* isize::MAX, the largest capacity Vec::with_capacity accepts
IsizeMax == (UsizeModulus \div 2) - 1

\* Whether every &self.data[start..end] of the row loop is a valid range.
RowsInRange(d, w, c, new_width, new_height) ==
    \A row \in 0 .. (new_height - 1) :
        LET start == (row + c.top) * w + c.left
            end   == (start + new_width) % UsizeModulus
        IN  start <= end /\ end <= Len(d)

\* crop() on buffer b.  overflowChecks is the build's setting: with it, a usize
\* subtraction that underflows panics; without it, the subtraction wraps.
\* Every panic comes before the first assignment to self.
CropOutcome(b, overflowChecks) ==
    IF b.crop = << >>
    THEN [err |-> "none", buf |-> b]
    ELSE LET c  == b.crop[1]
             lr == c.left + c.right
             tb == c.top + c.bottom
             new_width  == WrapSub(b.width, lr)
             new_height == WrapSub(b.height, tb)
             new_size   == WrapMul(new_width, new_height)
         IN  IF overflowChecks /\ (lr > b.width \/ tb > b.height)
             THEN [err |-> "subtract_overflow", buf |-> b]
             ELSE IF new_size > IsizeMax
             THEN [err |-> "capacity_overflow", buf |-> b]
             ELSE IF ~ RowsInRange(b.data, b.width, c, new_width, new_height)
             THEN [err |-> "slice_index", buf |-> b]
             ELSE [err |-> "none", buf |-> Cropped(b, c, new_width, new_height)]

Crop ==
    /\ stage = "bayer"
    /\ \E overflowChecks \in BOOLEAN :
          LET out == CropOutcome(Buffer, overflowChecks)
          IN  /\ width' = out.buf.width
              /\ height' = out.buf.height
              /\ data' = out.buf.data
              /\ crop' = out.buf.crop
              /\ cfa' = out.buf.cfa
              /\ err' = out.err
              /\ stage' = IF out.err = "none" THEN "bayer" ELSE "panicked"
    /\ pre' = Buffer
    /\ lastOp' = "crop"
    /\ UNCHANGED << ty, wb, rgb, px, py, picks, wbCalls >>

----------------------------------------------------------------------------
(* whitebalance *)

\* `(*light as f32 * wb[c]) as T` for a sample and the coefficient of colour c
Scale(light, coeffs, c, t) == FloatAsInt(light * coeffs[c + 1], WbDen, t)

\* The sample indices whose pixel the resolver reports as Emerald
EmeraldIndices(b) ==
    {i \in 0 .. (Len(b.data) - 1) : color_at_i(b.cfa, b.width, i) = Emerald}

\* The loop of whitebalance, stopped before index `stop`: the samples before
\* it are scaled in place, the others are as they were.
ScaledUpTo(b, coeffs, t, stop) ==
    [k \in 1 .. Len(b.data) |->
        IF k - 1 < stop
        THEN Scale(b.data[k], coeffs, color_at_i(b.cfa, b.width, k - 1), t)
        ELSE b.data[k]]

Min(S) == CHOOSE m \in S : \A n \in S : m <= n

\* whitebalance() on buffer b of sample type t.  The u8 version matches on the
\* colour and an Emerald pixel is unreachable!(); the u16 version indexes
\* wb[colour], which for Emerald is out of bounds when the array has three
\* entries (wbLen is the array's length, declared outside this file).
WhitebalanceOutcome(b, coeffs, t, wbLen) ==
    LET em == EmeraldIndices(b)
    IN  IF em = {} \/ (t = "u16" /\ wbLen > Emerald)
        THEN [err |-> "none", data |-> ScaledUpTo(b, coeffs, t, Len(b.data))]
        ELSE [err  |-> IF t = "u8" THEN "unreachable" ELSE "index_out_of_bounds",
              data |-> ScaledUpTo(b, coeffs, t, Min(em))]

Whitebalance ==
    /\ stage = "bayer"
    /\ wbCalls < MaxWbCalls
    /\ \E wbLen \in {3, 4} :
          LET out == WhitebalanceOutcome(Buffer, wb, ty, wbLen)
          IN  /\ data' = out.data
              /\ err' = out.err
              /\ stage' = IF out.err = "none" THEN "bayer" ELSE "panicked"
    /\ pre' = Buffer
    /\ lastOp' = "whitebalance"
    /\ wbCalls' = wbCalls + 1
    /\ UNCHANGED << ty, width, height, crop, cfa, wb, rgb, px, py, picks >>

----------------------------------------------------------------------------
(* debayer *)

\* The `options` array without its diagonals
optionsEdgesOnly == << <<0, -1>>, <<-1, 0>>, <<1, 0>>, <<0, 1>> >>

\* The eight neighbour offsets, in the order of the `options` array
options == << <<-1, -1>>, <<0, -1>>, <<1, -1>>,
              <<-1, 0>>,             <<1, 0>>,
              <<-1, 1>>,  <<0, 1>>,  <<1, 1>> >>

\* The iterator built per pixel: (colour, x, y) of every neighbour
Neighbours(f, x, y) ==
    [k \in 1 .. Len(options) |->
        LET nx == x + options[k][1]
            ny == y + options[k][2]
        IN  [color |-> color_at(f, nx, ny), x |-> nx, y |-> ny]]

\* pick_color without the filter on the colour
pick_colorAnyColour(random_u8, opts, color) ==
    LET random == random_u8 % Len(opts)
    IN  [n |-> Len(opts), idx |-> random, color |-> color,
         x |-> opts[random + 1].x, y |-> opts[random + 1].y]

\* pick_color: the neighbours of the wanted colour, and of those the one at
\* index random_u8() % colors.len().  n = 0 stands for the division by zero.
pick_color(random_u8, opts, color) ==
    LET colors == SelectSeq(opts, LAMBDA o : o.color = color)
    IN  IF Len(colors) = 0
        THEN [n |-> 0, idx |-> 0, color |-> color, x |-> 0, y |-> 0]
        ELSE LET random == random_u8 % Len(colors)
             IN  [n |-> Len(colors), idx |-> random, color |-> color,
                  x |-> colors[random + 1].x, y |-> colors[random + 1].y]

\* The `get` closure: self.data[self.width * p.1 + p.0]
get(d, w, x, y) == d[w * y + x + 1]

\* `set` writing the channel after the colour's own
setWrongChannel(out, w, x, y, clr, v) ==
    [out EXCEPT ![(w * y + x) * COMPONENTS + ((rgb_index(clr) + 1) % COMPONENTS) + 1] = v]

\* The `set` closure: rgb[(self.width * y + x) * COMPONENTS + clr.rgb_index()] = v
set(out, w, x, y, clr, v) ==
    [out EXCEPT ![(w * y + x) * COMPONENTS + rgb_index(clr) + 1] = v]

\* The two colours a match arm picks from the neighbours, in the arm's order
Picked(native) ==
    IF native = Red THEN << Green, Blue >>
    ELSE IF native = Blue THEN << Red, Green >>
    ELSE << Red, Blue >>

\* The output vector with one component per pixel
AllocRgbOneChannel(d, w, h) == [k \in 1 .. (w * h) |-> d[1]]

\* vec![self.data[0]; self.width * self.height * 3]
AllocRgb(d, w, h) == [k \in 1 .. (w * h * 3) |-> d[1]]

\* The start of debayer, up to the loops
DebayerStart ==
    /\ stage = "bayer"
    /\ IF Len(data) = 0
       THEN /\ stage' = "panicked"
            /\ err' = "index_out_of_bounds"
            /\ rgb' = rgb
       ELSE /\ stage' = "debayering"
            /\ err' = "none"
            /\ rgb' = AllocRgb(data, width, height)
    /\ px' = 1
    /\ py' = 1
    /\ picks' = << >>
    /\ pre' = Buffer
    /\ lastOp' = "debayer"
    /\ wbCalls' = 0
    /\ UNCHANGED << ty, width, height, data, crop, cfa, wb >>

\* One iteration of the inner loop, for the pixel (px, py)
DebayerStep ==
    /\ stage = "debayering"
    /\ px < width - 1
    /\ py < height - 1
    /\ \E b1, b2 \in 0 .. MaxRandomByte :
          LET native == color_at(cfa, px, py)
              opts   == Neighbours(cfa, px, py)
              p1     == pick_color(b1, opts, Picked(native)[1])
              p2     == pick_color(b2, opts, Picked(native)[2])
          IN  IF native = Emerald
              THEN /\ stage' = "panicked"
                   /\ err' = "unreachable"
                   /\ UNCHANGED << rgb, px, py, picks >>
              ELSE IF p1.n = 0 \/ p2.n = 0
              THEN /\ stage' = "panicked"
                   /\ err' = "remainder_by_zero"
                   /\ picks' = IF p1.n = 0 THEN << p1 >> ELSE << p1, p2 >>
                   /\ UNCHANGED << rgb, px, py >>
              ELSE /\ rgb' = set(set(set(rgb, width, px, py, native,
                                         get(data, width, px, py)),
                                     width, px, py, p1.color,
                                     get(data, width, p1.x, p1.y)),
                                 width, px, py, p2.color,
                                 get(data, width, p2.x, p2.y))
                   /\ picks' = << p1, p2 >>
                   /\ IF py + 1 < height - 1
                      THEN px' = px /\ py' = py + 1
                      ELSE px' = px + 1 /\ py' = 1
                   /\ UNCHANGED << stage, err >>
    /\ UNCHANGED << ty, width, height, data, crop, cfa, wb, lastOp, pre,
                    wbCalls >>

\* The loops are over: the Image<T, LinRgb> is returned
DebayerFinish ==
    /\ stage = "debayering"
    /\ ~ (px < width - 1 /\ py < height - 1)
    /\ stage' = "rgb"
    /\ UNCHANGED << ty, width, height, data, crop, cfa, wb, rgb, px, py, err,
                    lastOp, pre, picks, wbCalls >>

----------------------------------------------------------------------------
(* What the decoder hands over: the initial states *)

\* The samples of a decoded buffer: base, base + step, ... within the type
Samples(t, n, base, step) ==
    [k \in 1 .. n |-> (base + step * (k - 1)) % (TMax(t) + 1)]

Margins == 0 .. MaxMargin

CropRects == [left : Margins, right : Margins, top : Margins, bottom : Margins]

\* metadata.crop of a decoded buffer: None or any rectangle, valid or not
CropOptions == { << >> } \cup { << c >> : c \in CropRects }

\* Tiles as rows: << (0,0), (1,0), (0,1), (1,1) >>
Tiles == [1 .. (TileW * TileH) -> CfaColors]
RGGB == << Red, Green, Green, Blue >>
GRBG == << Green, Red, Blue, Green >>
RGEB == << Red, Green, Emerald, Blue >>

\* The shift of a decoded CFA: every residue of the tile's size
ShiftsX == 0 .. (TileW - 1)
ShiftsY == 0 .. (TileH - 1)

Unity == << WbDen, WbDen, WbDen, WbDen >>

\* Coefficients below one, one, above one, and a negative one
WbCoefficients == { -1, 1, WbDen, WbDen + 1, 2 * WbDen + 1 }

Sizes == { s \in (1 .. MaxWidth) \X (1 .. MaxHeight) : s[1] * s[2] <= MaxArea }

\* Every geometry and crop rectangle, on distinct samples
CropInputs ==
    [ty : {"u8"}, size : Sizes, crop : CropOptions, tile : {GRBG},
     sx : ShiftsX, sy : ShiftsY, wb : {Unity}, base : {0}, step : {1}]

\* Every coefficient and both integer types, on samples low, middle and high
WbInputs ==
    [ty : {"u8"}, size : { <<3, 2>> }, crop : { << >> },
     tile : {RGGB}, sx : {0}, sy : {0},
     wb : { << r, g, b, WbDen >> : r, g, b \in WbCoefficients },
     base : {0, 100, 250}, step : {1}]
    \cup
    [ty : {"u16"}, size : { <<3, 2>> }, crop : { << >> },
     tile : {RGGB}, sx : {0}, sy : {0},
     wb : { << r, g, b, WbDen >> : r, g, b \in WbCoefficients },
     base : {0, 100, 65530}, step : {1}]
    \cup
    [ty : {"u8", "u16"}, size : { <<3, 2>> }, crop : { << >> },
     tile : {RGEB}, sx : {0}, sy : {0},
     wb : { << WbDen + 1, 1, WbDen, 2 * WbDen + 1 >> },
     base : {100}, step : {1}]

\* Every tile and shift, on the smallest buffer with an interior pixel
DebayerInputs ==
    [ty : {"u8"}, size : { <<3, 3>> }, crop : { << >> },
     tile : Tiles, sx : ShiftsX, sy : ShiftsY, wb : {Unity},
     base : {10}, step : {1}]
    \cup
    [ty : {"u8"}, size : { <<3, 4>>, <<4, 3>> }, crop : { << >> },
     tile : {RGGB, RGEB}, sx : {0}, sy : {0}, wb : {Unity},
     base : {10}, step : {1}]

\* The 4x4 flat scene of value 100 under RGGB, and buffers that keep interior
\* pixels when cropped
Scenes ==
    [ty : {"u8", "u16"}, size : { <<4, 4>> }, crop : { << >> },
     tile : {RGGB}, sx : {0}, sy : {0}, wb : {Unity},
     base : {100}, step : {0}]
    \cup
    [ty : {"u8"}, size : { <<4, 3>> },
     crop : { << [left |-> 1, right |-> 0, top |-> 0, bottom |-> 0] >> },
     tile : {GRBG}, sx : ShiftsX, sy : ShiftsY, wb : {Unity},
     base : {0}, step : {1}]
    \cup
    [ty : {"u8"}, size : { <<3, 4>> },
     crop : { << [left |-> 0, right |-> 0, top |-> 1, bottom |-> 0] >> },
     tile : {GRBG}, sx : ShiftsX, sy : ShiftsY, wb : {Unity},
     base : {0}, step : {1}]

Inputs == CropInputs \cup WbInputs \cup DebayerInputs \cup Scenes

Init ==
    \E in \in Inputs :
        /\ ty = in.ty
        /\ width = in.size[1]
        /\ height = in.size[2]
        /\ data = Samples(in.ty, in.size[1] * in.size[2], in.base, in.step)
        /\ crop = in.crop
        /\ cfa = [tile |-> in.tile, sx |-> in.sx, sy |-> in.sy]
        /\ wb = in.wb
        /\ stage = "bayer"
        /\ rgb = << >>
        /\ px = 0
        /\ py = 0
        /\ err = "none"
        /\ lastOp = "none"
        /\ pre = [width |-> in.size[1], height |-> in.size[2],
                  data |-> Samples(in.ty, in.size[1] * in.size[2], in.base, in.step),
                  crop |-> in.crop,
                  cfa |-> [tile |-> in.tile, sx |-> in.sx, sy |-> in.sy]]
        /\ picks = << >>
        /\ wbCalls = 0

Next == Crop \/ Whitebalance \/ DebayerStart \/ DebayerStep \/ DebayerFinish

Spec == Init /\ [][Next]_vars

----------------------------------------------------------------------------
(* Properties *)

\* The rectangle the last crop() call found in metadata.crop
preRect == pre.crop[1]

\* The last call was crop() on a buffer whose rectangle was present
CropCalledWithRect == lastOp = "crop" /\ pre.crop # << >>

RectInBounds ==
    /\ preRect.left + preRect.right < pre.width
    /\ preRect.top + preRect.bottom < pre.height

\* The non-border pixels
Interior == (1 .. (width - 2)) \X (1 .. (height - 2))

\* Index into data of pixel (x, y) of a buffer of width w
At(w, x, y) == y * w + x + 1

\* Index into rgb of channel ch of pixel (x, y)
RgbAt(x, y, ch) == (width * y + x) * 3 + ch + 1

\* C1: crop() with a present rectangle that satisfies left+right < width and
\* top+bottom < height sets width and height to the reduced values and leaves
\* the crop field absent; a crop() call on a buffer whose crop field is absent
\* (as it is after that) changes nothing.
C1_CropReduces ==
    /\ (CropCalledWithRect /\ RectInBounds) =>
          /\ err = "none"
          /\ width = pre.width - (preRect.left + preRect.right)
          /\ height = pre.height - (preRect.top + preRect.bottom)
          /\ crop = << >>
    /\ (lastOp = "crop" /\ pre.crop = << >>) =>
          /\ err = "none"
          /\ Buffer = pre

\* A crop() call has returned that found the crop field absent, an earlier
\* call having cropped a left margin
C1_Witness ==
    /\ lastOp = "crop"
    /\ pre.crop = << >>
    /\ pre.cfa.sx >= TileW
    /\ Buffer = pre

\* C2 (as claimed): crop() with a rectangle that violates the bound fails and
\* leaves the buffer unchanged.  Any panic is taken for the failure here, so
\* that the statement is refuted only by a call that returns normally.
C2_InvalidRectRejected ==
    (CropCalledWithRect /\ ~ RectInBounds) => (err # "none" /\ Buffer = pre)

\* C3: after a successful crop() with rectangle (left, top, ..), colorAt(x, y)
\* on the shifted resolver equals colorAt(x + left, y + top) on the resolver
\* before the crop, for every (x, y) of the cropped buffer.
C3_CfaShift ==
    (CropCalledWithRect /\ err = "none") =>
        \A y \in 0 .. (height - 1) : \A x \in 0 .. (width - 1) :
            color_at(cfa, x, y)
                = color_at(pre.cfa, x + preRect.left, y + preRect.top)

\* A crop by a left margin only, of a buffer whose resolver was already shifted
C3_Witness ==
    /\ CropCalledWithRect
    /\ err = "none"
    /\ preRect.left = 1
    /\ preRect.top = 0
    /\ pre.cfa.sx > 0
    /\ width >= 2
    /\ height >= 2

\* C4: after debayer(), the channel of a non-border pixel that matches the
\* pixel's filter colour holds the pixel's own input sample.
C4_NativeExact ==
    stage = "rgb" =>
        \A p \in Interior :
            rgb[RgbAt(p[1], p[2], color_at(cfa, p[1], p[2]))]
                = data[At(width, p[1], p[2])]

\* debayer() has returned for a buffer with interior pixels and unequal samples
C4_Witness ==
    /\ stage = "rgb"
    /\ Interior # {}
    /\ data[At(width, 1, 1)] # data[1]
    /\ data[At(width, 1, 1)] # data[At(width, 0, 1)]

Offsets == (({-1, 0, 1}) \X ({-1, 0, 1})) \ { <<0, 0>> }

FlatInput == \A k \in 1 .. Len(data) : data[k] = data[1]

\* C5: after debayer(), each of the two other channels of a non-border pixel
\* holds the input sample of one of its eight neighbours whose filter colour
\* is that channel; so a flat input gives its value in all three channels of
\* every interior pixel.
C5_NeighbourSample ==
    stage = "rgb" =>
        /\ \A p \in Interior :
              \A ch \in {Red, Green, Blue} \ { color_at(cfa, p[1], p[2]) } :
                  \E o \in Offsets :
                      /\ color_at(cfa, p[1] + o[1], p[2] + o[2]) = ch
                      /\ rgb[RgbAt(p[1], p[2], ch)]
                            = data[At(width, p[1] + o[1], p[2] + o[2])]
        /\ FlatInput =>
              \A p \in Interior : \A ch \in {Red, Green, Blue} :
                  rgb[RgbAt(p[1], p[2], ch)] = data[1]

\* debayer() has returned, the sampler's byte having chosen a candidate other
\* than the first among unequal samples
C5_Witness ==
    /\ stage = "rgb"
    /\ Interior # {}
    /\ ~ FlatInput
    /\ Len(picks) = 2
    /\ picks[1].idx > 0
    /\ picks[2].idx > 0

\* The pixels debayer() has handled: those before (px, py) in loop order, and
\* (px, py) itself when the call stopped there
DebayerHandled ==
    { p \in Interior :
        /\ lastOp = "debayer"
        /\ Len(data) > 0
        /\ \/ p[1] < px
           \/ p[1] = px /\ p[2] < py
           \/ p[1] = px /\ p[2] = py /\ stage = "panicked" }

\* C6 (as claimed): when the resolver yields Emerald for a pixel that debayer()
\* or whitebalance() handles, the operation ends with UnsupportedFilterColor.
C6_EmeraldIsAnError ==
    (\/ \E p \in DebayerHandled : color_at(cfa, p[1], p[2]) = Emerald
     \/ lastOp = "whitebalance" /\ EmeraldIndices(pre) # {})
        => err = "UnsupportedFilterColor"

\* The product of the sample at index k before whitebalance() and its
\* coefficient, truncated toward zero
TruncatedProduct(k) ==
    TruncDiv(pre.data[k] * wb[color_at_i(pre.cfa, pre.width, k - 1) + 1], WbDen)

MetadataUnchanged ==
    /\ width = pre.width
    /\ height = pre.height
    /\ crop = pre.crop
    /\ cfa = pre.cfa

\* C7 (as claimed): after whitebalance() every sample equals
\* truncate(input * coefficient), also when the product exceeds the type's
\* maximum; width, height and metadata are unchanged.
C7_TruncatedProduct ==
    (lastOp = "whitebalance" /\ err = "none") =>
        /\ \A k \in 1 .. Len(pre.data) : data[k] = TruncatedProduct(k)
        /\ Len(data) = Len(pre.data)
        /\ MetadataUnchanged

\* C7 (amended): after whitebalance() every sample equals
\* truncate(input * coefficient) where that lies within 0 .. MAX of the type,
\* MAX where it is above and 0 where it is below; width, height and metadata
\* are unchanged.
C7_SaturatedProduct ==
    (lastOp = "whitebalance" /\ err = "none") =>
        /\ \A k \in 1 .. Len(pre.data) :
              /\ TruncatedProduct(k) \in 0 .. TMax(ty) => data[k] = TruncatedProduct(k)
              /\ TruncatedProduct(k) > TMax(ty) => data[k] = TMax(ty)
              /\ TruncatedProduct(k) < 0 => data[k] = 0
        /\ Len(data) = Len(pre.data)
        /\ MetadataUnchanged

\* whitebalance() has returned: one product was above MAX, one was an odd
\* number of halves and within the type
C7_Witness ==
    /\ lastOp = "whitebalance"
    /\ err = "none"
    /\ \E k \in 1 .. Len(pre.data) : TruncatedProduct(k) > TMax(ty)
    /\ \E k \in 1 .. Len(pre.data) :
          /\ TruncatedProduct(k) \in 1 .. TMax(ty)
          /\ TruncatedProduct(k) * WbDen
                 # pre.data[k] * wb[color_at_i(pre.cfa, pre.width, k - 1) + 1]

\* C8: len(samples) = width * height * channelCount: one channel while the
\* buffer is the sensor plane, three in the buffer debayer() builds, which has
\* the width and height of its input.
C8_BufferSize ==
    /\ stage = "bayer" => Len(data) = width * height
    /\ stage \in {"debayering", "rgb"} =>
          /\ Len(rgb) = width * height * 3
          /\ width = pre.width
          /\ height = pre.height
          /\ Len(pre.data) = pre.width * pre.height

\* debayer() has returned for a buffer that was cropped by a left margin
C8_Witness ==
    /\ stage = "rgb"
    /\ crop = << >>
    /\ cfa.sx >= TileW
    /\ Interior # {}

\* C9: after a successful crop(), the sample at row-major index
\* y * newWidth + x is the input sample at (y + top) * oldWidth + (x + left),
\* for every (x, y) of the cropped buffer, and there are no other samples.
C9_Placement ==
    (CropCalledWithRect /\ err = "none") =>
        /\ Len(data) = width * height
        /\ \A y \in 0 .. (height - 1) : \A x \in 0 .. (width - 1) :
              data[At(width, x, y)]
                  = pre.data[At(pre.width, x + preRect.left, y + preRect.top)]

\* A crop that removed a left and a top margin and kept at least two rows of
\* two samples
C9_Witness ==
    /\ CropCalledWithRect
    /\ err = "none"
    /\ preRect.left > 0
    /\ preRect.top > 0
    /\ width >= 2
    /\ height >= 2

HasRgb(tile) ==
    \A ch \in {Red, Green, Blue} : \E k \in 1 .. Len(tile) : tile[k] = ch

\* C10: under a 2x2 tile that contains Red, Green and Blue, whatever the
\* shift, pick_color never finds its candidate list empty (no remainder by
\* zero), the index it draws is below the list's length and the neighbour it
\* returns lies inside the buffer.
C10_CandidatesNonEmpty ==
    (Len(cfa.tile) = 4 /\ HasRgb(cfa.tile)) =>
        /\ err # "remainder_by_zero"
        /\ \A k \in 1 .. Len(picks) :
              /\ picks[k].n > 0
              /\ picks[k].idx < picks[k].n
              /\ picks[k].x \in 0 .. (width - 1)
              /\ picks[k].y \in 0 .. (height - 1)
              /\ width * picks[k].y + picks[k].x < Len(data)

\* debayer() has drawn twice for a pixel under a shifted tile with the three
\* colours, the second draw from a list of at least two
C10_Witness ==
    /\ stage \in {"debayering", "rgb"}
    /\ HasRgb(cfa.tile)
    /\ cfa.sx > 0
    /\ cfa.sy > 0
    /\ Len(picks) = 2
    /\ picks[2].idx > 0

====
